---- MODULE Spec2Model ----
(***************************************************************************)
(* Model of the dividend-history metrics engine (src/analyzer.py), of the   *)
(* store it reads (src/data_manager.py), and of the API client and the     *)
(* fetch run that fill the store (src/polygon_client.py,                   *)
(* src/fetch_data.py).                                                     *)
(*                                                                         *)
(* Time.  A point in time is an integer number of ticks since the epoch;   *)
(* one calendar day is TicksPerDay ticks.  A raw price bar carries its     *)
(* timestamp t (epoch milliseconds in the source) as a tick count, so a    *)
(* bar may be stamped at any time of day.  A raw dividend carries its      *)
(* ex_dividend_date (an ISO 'YYYY-MM-DD' string in the source) as a day    *)
(* number.                                                                 *)
(*                                                                         *)
(* Money.  Raw amounts (c, cash_amount) are integers in thousandths of a   *)
(* currency unit.  Inside the computation a float is the exact rational    *)
(* n/d (record [tag |-> "f", n, d], d > 0) or one of the IEEE specials     *)
(* inf, -inf, nan, which numpy scalar division by zero produces.           *)
(*                                                                         *)
(* Store and client.  A stored file is absent, unreadable, or a list of    *)
(* records; the wall clock of the client is read in whole seconds.         *)
(***************************************************************************)
EXTENDS Integers, Sequences, FiniteSets, TLC

VARIABLES dividends, prices, prices_df, dividends_df, call, ret,
          dividend_files, price_files, client, clock,
          symbols_config, symbols_list, processed

(* the analyzer's fields; the stored files, the API client, the wall clock and
   the position of the fetch run *)
analyzer_vars == <<dividends, prices, prices_df, dividends_df>>
fetch_vars == <<dividend_files, price_files, client, clock,
                symbols_config, symbols_list, processed>>

vars == <<dividends, prices, prices_df, dividends_df, call, ret,
          dividend_files, price_files, client, clock,
          symbols_config, symbols_list, processed>>

(* ---- bounds of the explored inputs: the ticks in a day, and the number of raw
   records (price bars plus dividends) an analyzer is built from ---- *)
TicksPerDay == 2
MaxRecords == 3
(* the number of dividend events in the histories the frequency is taken of *)
MaxEvents == 4

(* ---- program constant: timedelta(days=months * 30) ---- *)
DaysPerMonth == 30

(* ---- the explored inputs ---- *)
(* amounts are in thousandths: closes 0, 100, 100.004 and 110, dividends of 0.004 and 5 *)
(* bar timestamps: midnight of day 0, later on day 0, and 180 days after that *)
BarTimes == {0, 1, 180 * TicksPerDay + 1}
DivDays == {0, 150}
Closes == {0, 100000, 100004, 110000}
CashAmounts == {4, 5000}
Months == {-1, 0, 1, 6, 7}

RawBars == [t : BarTimes, c : Closes]
RawDivs == [ex_dividend_date : DivDays, cash_amount : CashAmounts]

SeqsUpTo(S, n) == UNION {[1..k -> S] : k \in 0..n}

(* ---- values ---- *)
None == [tag |-> "None"]
Fl(n, d) == [tag |-> "f", n |-> n, d |-> d]
Inf == [tag |-> "inf"]
NegInf == [tag |-> "-inf"]
NaN == [tag |-> "nan"]
Bool(b) == [tag |-> "bool", b |-> b]
Raised(e) == [tag |-> "raise", error |-> e]
IsRaised(v) == "tag" \in DOMAIN v /\ v.tag = "raise"

(* pd.to_datetime(t, unit='ms'): the instant itself, time of day kept *)
to_datetime_ms(t) == t
(* pd.to_datetime('YYYY-MM-DD'): midnight of that calendar day *)
to_datetime_iso(day) == day * TicksPerDay
(* date.strftime('%Y-%m-%d'): the calendar day, time of day dropped *)
strftime(date) == date \div TicksPerDay
(* timedelta(days=n) *)
timedelta_days(n) == n * TicksPerDay

(* ---- float arithmetic (exact rationals plus the IEEE specials) ---- *)
RECURSIVE Gcd(_, _)
Gcd(a, b) == IF b = 0 THEN a ELSE Gcd(b, a % b)

Abs(x) == IF x < 0 THEN -x ELSE x

Norm(n, d) ==
    LET g == Gcd(Abs(n), Abs(d))
        s == IF d < 0 THEN -1 ELSE 1
    IN  Fl(s * (n \div g), s * (d \div g))

(* a raw JSON amount (thousandths) read as a float *)
FromRaw(m) == Norm(m, 1000)

FSub(x, y) == Norm(x.n * y.d - y.n * x.d, x.d * y.d)
(* variant: the dividends are subtracted from the price change *)
FAddNegated(x, y) == Norm(x.n * y.d - y.n * x.d, x.d * y.d)
FAdd(x, y) == Norm(x.n * y.d + y.n * x.d, x.d * y.d)

(* variant: Python float division, which raises on a zero divisor *)
FDivRaising(x, y) ==
    IF y.n = 0 THEN Raised("ZeroDivisionError") ELSE Norm(x.n * y.d, x.d * y.n)

(* numpy scalar true division: division by zero warns and gives inf, -inf or nan, it does not raise *)
FDiv(x, y) ==
    IF y.n = 0
    THEN (IF x.n > 0 THEN Inf ELSE IF x.n < 0 THEN NegInf ELSE NaN)
    ELSE Norm(x.n * y.d, x.d * y.n)

FMul100(x) == IF x.tag = "f" THEN Norm(100 * x.n, x.d) ELSE x

(* variant: zero counts as profitable *)
FGeZero(x) == x.tag = "f" /\ x.n >= 0

FGtZero(x) == x.tag = "f" /\ x.n > 0

(* nearest integer to p/q (q > 0), ties to the even neighbour *)
HalfEven(p, q) ==
    LET f == p \div q
        r == p % q
    IN  IF 2 * r < q THEN f
        ELSE IF 2 * r > q THEN f + 1
        ELSE IF f % 2 = 0 THEN f ELSE f + 1

(* variant: the digits after the second decimal are dropped (rounding down) *)
Round2Down(x) == IF x.tag = "f" THEN Fl((100 * x.n) \div x.d, 100) ELSE x

(* round(x, 2): a finite value becomes a whole number of hundredths, written n/100 *)
Round2(x) == IF x.tag = "f" THEN Fl(HalfEven(100 * x.n, x.d), 100) ELSE x

(* ---- DataFrame helpers ---- *)
SetMax(S) == CHOOSE x \in S : \A y \in S : y <= x
SetMin(S) == CHOOSE x \in S : \A y \in S : x <= y

DateCol(df) == {df[i].date : i \in 1..Len(df)}

IsSortedByDate(df) == \A i \in 1..(Len(df) - 1) : df[i].date <= df[i + 1].date

(* variant: the rows are left in input order *)
sort_values_none(df) == {df}

(* df.sort_values('date'): the default sort is not stable, so rows that share a
   date may come out in either order; every date-ordered arrangement is possible *)
sort_values(df) ==
    {s \in {[i \in 1..Len(df) |-> df[p[i]]] : p \in Permutations(1..Len(df))} : IsSortedByDate(s)}

(* df.iloc[-1] *)
iloc_last(df) == IF df = <<>> THEN Raised("IndexError") ELSE df[Len(df)]

RECURSIVE SumCash(_)
SumCash(df) == IF df = <<>> THEN 0 ELSE df[1].cash_amount + SumCash(Tail(df))

(* ---- DividendAnalyzer._prepare_data ---- *)
prepare_prices(ps) ==
    IF ps # <<>>
    THEN sort_values([i \in 1..Len(ps) |->
            [t |-> ps[i].t, c |-> ps[i].c, date |-> to_datetime_ms(ps[i].t)]])
    ELSE {<<>>}

prepare_dividends(ds) ==
    IF ds # <<>>
    THEN sort_values([i \in 1..Len(ds) |->
            [ex_dividend_date |-> ds[i].ex_dividend_date, cash_amount |-> ds[i].cash_amount,
             date |-> to_datetime_iso(ds[i].ex_dividend_date)]])
    ELSE {<<>>}

(* ---- DividendAnalyzer.get_price_at_date ---- *)
(* variant: takes the first qualifying row (iloc[0]) instead of the last *)
get_price_at_date_first(df, target_date) ==
    IF df = <<>> THEN None
    ELSE LET valid_prices == SelectSeq(df, LAMBDA r : r.date <= target_date)
         IN  IF valid_prices = <<>> THEN None ELSE FromRaw(valid_prices[1].c)

(* variant: the valid_prices.empty test is missing, so iloc[-1] may raise *)
get_price_at_date_unguarded(df, target_date) ==
    IF df = <<>> THEN None
    ELSE LET row == iloc_last(SelectSeq(df, LAMBDA r : r.date <= target_date))
         IN  IF IsRaised(row) THEN row ELSE FromRaw(row.c)

(* variant: strict comparison, a bar dated exactly target_date does not qualify *)
get_price_at_date_strict(df, target_date) ==
    IF df = <<>> THEN None
    ELSE LET valid_prices == SelectSeq(df, LAMBDA r : r.date < target_date)
         IN  IF valid_prices = <<>> THEN None ELSE FromRaw(valid_prices[Len(valid_prices)].c)

get_price_at_date(df, target_date) ==
    IF df = <<>> THEN None
    ELSE LET valid_prices == SelectSeq(df, LAMBDA r : r.date <= target_date)
         IN  IF valid_prices = <<>> THEN None
             ELSE LET row == iloc_last(valid_prices)
                  IN  IF IsRaised(row) THEN row ELSE FromRaw(row.c)

(* ---- DividendAnalyzer.get_dividends_in_period ---- *)
(* variant: the end of the range is exclusive *)
get_dividends_in_period_open(df, start_date, end_date) ==
    IF df = <<>> THEN Fl(0, 1)
    ELSE LET period_divs == SelectSeq(df, LAMBDA r : r.date >= start_date /\ r.date < end_date)
         IN  IF period_divs # <<>> THEN FromRaw(SumCash(period_divs)) ELSE Fl(0, 1)

get_dividends_in_period(df, start_date, end_date) ==
    IF df = <<>> THEN Fl(0, 1)
    ELSE LET period_divs == SelectSeq(df, LAMBDA r : r.date >= start_date /\ r.date <= end_date)
         IN  IF period_divs # <<>> THEN FromRaw(SumCash(period_divs)) ELSE Fl(0, 1)

(* ---- DividendAnalyzer.calculate_metrics ---- *)
DateStr(d) == [tag |-> "str", day |-> d]

MetricKeys ==
    {"period_months", "start_date", "end_date", "start_price", "end_price", "price_change",
     "price_change_pct", "total_dividends", "dividend_yield_pct", "total_return",
     "total_return_pct", "profitable_price", "profitable_total"}

(* variant: the flags default to false instead of None *)
EmptyMetricsFlagsFalse(months) ==
    [period_months |-> months, start_date |-> None, end_date |-> None,
     start_price |-> None, end_price |-> None, price_change |-> None,
     price_change_pct |-> None, total_dividends |-> None, dividend_yield_pct |-> None,
     total_return |-> None, total_return_pct |-> None,
     profitable_price |-> Bool(FALSE), profitable_total |-> Bool(FALSE)]

(* the record returned for an empty price series *)
EmptyMetrics(months) ==
    [period_months |-> months, start_date |-> None, end_date |-> None,
     start_price |-> None, end_price |-> None, price_change |-> None,
     price_change_pct |-> None, total_dividends |-> None, dividend_yield_pct |-> None,
     total_return |-> None, total_return_pct |-> None,
     profitable_price |-> None, profitable_total |-> None]

(* end_date = prices_df['date'].max() *)
window_end(pdf) == SetMax(DateCol(pdf))

(* variant: the requested start is used as it is, without the clamp *)
window_start_unclamped(pdf, months) ==
    window_end(pdf) - timedelta_days(months * DaysPerMonth)

(* variant: min in place of max, the earlier of the two dates is taken *)
window_start_min(pdf, months) ==
    LET target_start_date == window_end(pdf) - timedelta_days(months * DaysPerMonth)
        actual_start_date == SetMin(DateCol(pdf))
    IN  IF target_start_date <= actual_start_date THEN target_start_date ELSE actual_start_date

(* start_date = max(end_date - timedelta(days=months * 30), prices_df['date'].min()) *)
window_start(pdf, months) ==
    LET target_start_date == window_end(pdf) - timedelta_days(months * DaysPerMonth)
        actual_start_date == SetMin(DateCol(pdf))
    IN  IF target_start_date >= actual_start_date THEN target_start_date ELSE actual_start_date

(* the record returned when a price is missing *)
PartialMetrics(months, start_date, end_date, start_price, end_price) ==
    [period_months |-> months,
     start_date |-> DateStr(strftime(start_date)),
     end_date |-> DateStr(strftime(end_date)),
     start_price |-> start_price, end_price |-> end_price, price_change |-> None,
     price_change_pct |-> None, total_dividends |-> None, dividend_yield_pct |-> None,
     total_return |-> None, total_return_pct |-> None,
     profitable_price |-> None, profitable_total |-> None]

(* the derived fields and the rounded output record, once both prices resolved *)
FullMetrics(months, start_date, end_date, start_price, end_price, total_dividends) ==
    LET price_change == FSub(end_price, start_price)
        price_change_ratio == FDiv(price_change, start_price)
        dividend_ratio == FDiv(total_dividends, start_price)
        total_return == FAdd(price_change, total_dividends)
        total_return_ratio == FDiv(total_return, start_price)
    IN
    IF IsRaised(price_change_ratio) THEN price_change_ratio
    ELSE IF IsRaised(dividend_ratio) THEN dividend_ratio
    ELSE IF IsRaised(total_return_ratio) THEN total_return_ratio
    ELSE
    [period_months |-> months,
     start_date |-> DateStr(strftime(start_date)),
     end_date |-> DateStr(strftime(end_date)),
     start_price |-> Round2(start_price),
     end_price |-> Round2(end_price),
     price_change |-> Round2(price_change),
     price_change_pct |-> Round2(FMul100(price_change_ratio)),
     total_dividends |-> Round2(total_dividends),
     dividend_yield_pct |-> Round2(FMul100(dividend_ratio)),
     total_return |-> Round2(total_return),
     total_return_pct |-> Round2(FMul100(total_return_ratio)),
     profitable_price |-> Bool(FGtZero(price_change)),
     profitable_total |-> Bool(FGtZero(total_return))]

calculate_metrics(pdf, ddf, months) ==
    IF pdf = <<>> THEN EmptyMetrics(months)
    ELSE
    LET end_date == window_end(pdf)
        start_date == window_start(pdf, months)
        start_price == get_price_at_date(pdf, start_date)
        end_price == get_price_at_date(pdf, end_date)
    IN
    IF IsRaised(start_price) THEN start_price
    ELSE IF IsRaised(end_price) THEN end_price
    ELSE IF start_price = None \/ end_price = None
    THEN PartialMetrics(months, start_date, end_date, start_price, end_price)
    ELSE FullMetrics(months, start_date, end_date, start_price, end_price,
                     get_dividends_in_period(ddf, start_date, end_date))

(* ---- DividendAnalyzer.get_price_history ---- *)
List(items) == [tag |-> "list", items |-> items]

(* variant: strict comparison, a bar dated exactly at the start is left out *)
get_price_history_strict(df, months) ==
    IF df = <<>> THEN List(<<>>)
    ELSE LET end_date == window_end(df)
             start_date == end_date - timedelta_days(months * DaysPerMonth)
             period_prices == SelectSeq(df, LAMBDA r : r.date > start_date)
         IN  List([i \in 1..Len(period_prices) |->
                    <<DateStr(strftime(period_prices[i].date)), FromRaw(period_prices[i].c)>>])

get_price_history(df, months) ==
    IF df = <<>> THEN List(<<>>)
    ELSE LET end_date == window_end(df)
             start_date == end_date - timedelta_days(months * DaysPerMonth)
             period_prices == SelectSeq(df, LAMBDA r : r.date >= start_date)
         IN  List([i \in 1..Len(period_prices) |->
                    <<DateStr(strftime(period_prices[i].date)), FromRaw(period_prices[i].c)>>])

(* ---- DividendAnalyzer.get_dividend_frequency ---- *)
(* program constants: the trailing window in days and the three thresholds *)
TrailingDays == 365
WeeklyMax == 10
MonthlyMax == 35
QuarterlyMax == 110

Label(s) == [tag |-> "label", s |-> s]

(* (a - b).days for instants a >= b *)
days_between(a, b) == (a - b) \div TicksPerDay

(* sorted(list) of instants: equal instants are the same value, so the result is unique *)
sorted(s) ==
    CHOOSE r \in {[i \in 1..Len(s) |-> s[p[i]]] : p \in Permutations(1..Len(s))} :
        \A i \in 1..(Len(s) - 1) : r[i] <= r[i + 1]

RECURSIVE SumSeq(_)
SumSeq(s) == IF s = <<>> THEN 0 ELSE s[1] + SumSeq(Tail(s))

(* variant: the thresholds are exclusive *)
FLt(x, k) == x.tag = "f" /\ x.n < k * x.d

(* x <= k for a finite float x and an integer k *)
FLe(x, k) == x.tag = "f" /\ x.n <= k * x.d

(* variant: the whole history is used, the trailing window is not applied *)
get_dividend_frequency_unwindowed(df, today) ==
    IF df = <<>> \/ Len(df) < 2 THEN Label("")
    ELSE
    LET dates == sorted([i \in 1..Len(df) |-> df[i].date])
        intervals == [i \in 1..(Len(dates) - 1) |-> days_between(dates[i + 1], dates[i])]
        avg_interval == FDiv(Fl(SumSeq(intervals), 1), Fl(Len(intervals), 1))
    IN  IF FLe(avg_interval, WeeklyMax) THEN Label("W")
        ELSE IF FLe(avg_interval, MonthlyMax) THEN Label("M")
        ELSE IF FLe(avg_interval, QuarterlyMax) THEN Label("Q")
        ELSE Label("")

(* variant: the median gap is classified instead of the mean gap *)
get_dividend_frequency_median(df, today) ==
    IF df = <<>> \/ Len(df) < 2 THEN Label("")
    ELSE
    LET recent_divs == SelectSeq(df, LAMBDA r : r.date >= today - timedelta_days(TrailingDays))
    IN
    IF Len(recent_divs) < 2 THEN Label("")
    ELSE
    LET dates == sorted([i \in 1..Len(recent_divs) |-> recent_divs[i].date])
        intervals == sorted([i \in 1..(Len(dates) - 1) |-> days_between(dates[i + 1], dates[i])])
        n == Len(intervals)
        avg_interval == IF n % 2 = 1 THEN Fl(intervals[(n + 1) \div 2], 1)
                        ELSE FDiv(Fl(intervals[n \div 2] + intervals[n \div 2 + 1], 1), Fl(2, 1))
    IN  IF FLe(avg_interval, WeeklyMax) THEN Label("W")
        ELSE IF FLe(avg_interval, MonthlyMax) THEN Label("M")
        ELSE IF FLe(avg_interval, QuarterlyMax) THEN Label("Q")
        ELSE Label("")

get_dividend_frequency(df, today) ==
    IF df = <<>> \/ Len(df) < 2 THEN Label("")
    ELSE
    LET end_date == today
        start_date == end_date - timedelta_days(TrailingDays)
        recent_divs == SelectSeq(df, LAMBDA r : r.date >= start_date)
    IN
    IF Len(recent_divs) < 2 THEN Label("")
    ELSE
    LET dates == sorted([i \in 1..Len(recent_divs) |-> recent_divs[i].date])
        intervals == [i \in 1..(Len(dates) - 1) |-> days_between(dates[i + 1], dates[i])]
    IN
    IF intervals = <<>> THEN Label("")
    ELSE
    LET avg_interval == FDiv(Fl(SumSeq(intervals), 1), Fl(Len(intervals), 1))
    IN  IF FLe(avg_interval, WeeklyMax) THEN Label("W")
        ELSE IF FLe(avg_interval, MonthlyMax) THEN Label("M")
        ELSE IF FLe(avg_interval, QuarterlyMax) THEN Label("Q")
        ELSE Label("")

(* ---- DataManager: one JSON file per ticker and kind ---- *)
Tickers == {"JEPI", "SPY"}

(* no file at the path, a file json.load cannot parse, a file holding a list *)
NoFile == [tag |-> "missing"]
Corrupt == [tag |-> "corrupt"]
File(records) == [tag |-> "json", records |-> records]

(* a dict as a function from keys to records; {} *)
EmptyDict == [k \in {} |-> k]

(* d[r[key]] = r for every r of records in turn: a later record replaces an
   earlier one with the same key *)
RECURSIVE dict_update(_, _, _)
dict_update(d, records, key) ==
    IF records = <<>> THEN d
    ELSE LET r == Head(records)
         IN  dict_update([k \in DOMAIN d \cup {r[key]} |-> IF k = r[key] THEN r ELSE d[k]],
                         Tail(records), key)

(* sorted(d.values(), key=lambda x: x[key]): the keys of a dict are distinct, so
   the order is determined *)
RECURSIVE sorted_values(_)
sorted_values(d) ==
    IF DOMAIN d = {} THEN <<>>
    ELSE LET k == SetMin(DOMAIN d)
         IN  <<d[k]>> \o sorted_values([x \in DOMAIN d \ {k} |-> d[x]])

(* the faults of the file system while the merged list is written: none, open()
   raises and the file stays as it was, json.dump raises after open() truncated
   the file *)
Faults == {"none", "open", "write"}

(* variant: the batch replaces the stored list instead of being merged into it *)
save_dividends_replace(file, batch, fault) ==
    IF file = Corrupt THEN [file |-> file, ret |-> Raised("JSONDecodeError")]
    ELSE
    LET merged_data == sorted_values(dict_update(EmptyDict, batch, "ex_dividend_date"))
    IN  IF fault = "open" THEN [file |-> file, ret |-> Raised("OSError")]
        ELSE IF fault = "write" THEN [file |-> Corrupt, ret |-> Raised("OSError")]
        ELSE [file |-> File(merged_data), ret |-> None]

(* DataManager.save_dividends on the ticker's dividend file: the file after the
   call and what the call returned or raised *)
save_dividends(file, batch, fault) ==
    IF file = Corrupt THEN [file |-> file, ret |-> Raised("JSONDecodeError")]
    ELSE
    LET existing_data == IF file = NoFile THEN <<>> ELSE file.records
        existing_dict == dict_update(EmptyDict, existing_data, "ex_dividend_date")
        merged_data == sorted_values(dict_update(existing_dict, batch, "ex_dividend_date"))
    IN  IF fault = "open" THEN [file |-> file, ret |-> Raised("OSError")]
        ELSE IF fault = "write" THEN [file |-> Corrupt, ret |-> Raised("OSError")]
        ELSE [file |-> File(merged_data), ret |-> None]

(* DataManager.save_prices on the ticker's price file *)
save_prices(file, batch, fault) ==
    IF file = Corrupt THEN [file |-> file, ret |-> Raised("JSONDecodeError")]
    ELSE
    LET existing_data == IF file = NoFile THEN <<>> ELSE file.records
        existing_dict == dict_update(EmptyDict, existing_data, "t")
        merged_data == sorted_values(dict_update(existing_dict, batch, "t"))
    IN  IF fault = "open" THEN [file |-> file, ret |-> Raised("OSError")]
        ELSE IF fault = "write" THEN [file |-> Corrupt, ret |-> Raised("OSError")]
        ELSE [file |-> File(merged_data), ret |-> None]

(* DataManager.load_dividends / load_prices: [] when there is no file *)
load(file) ==
    IF file = NoFile THEN List(<<>>)
    ELSE IF file = Corrupt THEN Raised("JSONDecodeError")
    ELSE List(file.records)

(* DataManager.get_date_range: None when nothing is stored, else the least and
   the greatest key *)
get_date_range(file, key) ==
    LET data == load(file)
    IN  IF IsRaised(data) THEN data
        ELSE IF data.items = <<>> THEN None
        ELSE List(<<SetMin({data.items[i][key] : i \in 1..Len(data.items)}),
                    SetMax({data.items[i][key] : i \in 1..Len(data.items)})>>)

(* ---- PolygonClient ---- *)
(* program constant: 60.0 / requests_per_minute *)
SecondsPerMinute == 60

(* the rates explored; each divides 60, so the interval is a whole number of
   seconds and the clock is read in whole seconds *)
RequestRates == {20, 30, 60}

(* PolygonClient.__init__ *)
PolygonClient(requests_per_minute) ==
    [requests_per_minute |-> requests_per_minute,
     min_request_interval |-> SecondsPerMinute \div requests_per_minute,
     last_request_time |-> 0]

(* the seconds that pass inside _rate_limit beyond the requested sleep:
   time.sleep returns no earlier than asked, possibly later *)
Lags == {0, 1}

(* variant: the stamp is the time read on entry, before sleeping *)
rate_limit_stamp_on_entry(self, now, lag) ==
    LET current_time == now
        time_since_last_request == current_time - self.last_request_time
        sleep_time == IF time_since_last_request < self.min_request_interval
                      THEN self.min_request_interval - time_since_last_request ELSE 0
    IN  [self |-> [self EXCEPT !.last_request_time = current_time],
         clock |-> current_time + sleep_time + lag, slept |-> sleep_time]

(* PolygonClient._rate_limit entered at time now: the client and the clock on
   return, and the sleep requested (0: time.sleep was not called) *)
rate_limit(self, now, lag) ==
    LET current_time == now
        time_since_last_request == current_time - self.last_request_time
        sleep_time == IF time_since_last_request < self.min_request_interval
                      THEN self.min_request_interval - time_since_last_request ELSE 0
        woke == current_time + sleep_time + lag
    IN  [self |-> [self EXCEPT !.last_request_time = woke], clock |-> woke, slept |-> sleep_time]

(* what the HTTP request gives: a JSON body with a results list, a JSON body
   without one, or an exception (requests.get or raise_for_status) *)
Response(results) == [tag |-> "response", results |-> results]
NoResults == [tag |-> "response_without_results"]

(* PolygonClient._make_request: _rate_limit first, then the request *)
make_request(self, now, lag, response) ==
    LET limited == rate_limit(self, now, lag)
    IN  [self |-> limited.self, clock |-> limited.clock, slept |-> limited.slept,
         ret |-> response]

(* data.get('results', []) *)
get_results(data) == IF data = NoResults THEN List(<<>>) ELSE List(data.results)

(* PolygonClient.get_dividends *)
get_dividends(self, now, lag, response) ==
    LET request == make_request(self, now, lag, response)
    IN  IF IsRaised(request.ret) THEN request
        ELSE [request EXCEPT !.ret = get_results(request.ret)]

(* PolygonClient.get_aggregates *)
get_aggregates(self, now, lag, response) ==
    LET request == make_request(self, now, lag, response)
    IN  IF IsRaised(request.ret) THEN request
        ELSE [request EXCEPT !.ret = get_results(request.ret)]

(* ---- fetch_data ---- *)
(* sorted() of a set of ticker symbols: the symbols in alphabetical order *)
Alphabetical == <<"JEPI", "SPY">>
sorted_symbols(S) == SelectSeq(Alphabetical, LAMBDA t : t \in S)

(* an entry of config['symbols']: a string, a dict with 'symbol' and maybe
   'underlying', or something else *)
EntryStr(s) == [type |-> "str", value |-> s]
EntryDict(etf) == [type |-> "dict", symbol |-> etf]
EntryDictUnderlying(etf, u) == [type |-> "dict", symbol |-> etf, underlying |-> u]
EntryOther == [type |-> "int"]

(* main: the loop that collects symbols_to_fetch *)
RECURSIVE symbols_to_fetch(_)
symbols_to_fetch(entries) ==
    IF entries = <<>> THEN {}
    ELSE LET entry == Head(entries)
             found == IF entry.type = "str" THEN {entry.value}
                      ELSE IF entry.type = "dict"
                      THEN IF "underlying" \in DOMAIN entry
                           THEN {entry.symbol, entry.underlying} ELSE {entry.symbol}
                      ELSE {}
         IN  found \cup symbols_to_fetch(Tail(entries))

(* what one fetch-and-save block of fetch_data_for_symbol did *)
Outcome(fetched, saved) ==
    IF IsRaised(fetched) THEN "fetch_error"
    ELSE IF fetched.items = <<>> THEN "empty"
    ELSE IF IsRaised(saved) THEN "save_error"
    ELSE "saved"

(* variant: one try block around both fetches, an error in the dividend block
   skips the price block *)
fetch_data_for_symbol_one_try(self, now, dividend_file, price_file, inputs) ==
    LET existing_price_range == get_date_range(price_file, "t")
        existing_div_range == get_date_range(dividend_file, "ex_dividend_date")
    IN
    IF IsRaised(existing_price_range) \/ IsRaised(existing_div_range)
    THEN [self |-> self, clock |-> now, dividend_file |-> dividend_file,
          price_file |-> price_file, dividends |-> "skipped", prices |-> "skipped",
          ret |-> Raised("JSONDecodeError")]
    ELSE
    LET d == get_dividends(self, now, inputs.lag1, inputs.dividends_response)
        dsave == IF IsRaised(d.ret) \/ d.ret.items = <<>>
                 THEN [file |-> dividend_file, ret |-> None]
                 ELSE save_dividends(dividend_file, d.ret.items, inputs.dividends_fault)
        failed == IsRaised(d.ret) \/ IsRaised(dsave.ret)
        p == IF failed THEN [self |-> d.self, clock |-> d.clock, ret |-> None]
             ELSE get_aggregates(d.self, d.clock, inputs.lag2, inputs.prices_response)
        psave == IF failed \/ IsRaised(p.ret) \/ p.ret.items = <<>>
                 THEN [file |-> price_file, ret |-> None]
                 ELSE save_prices(price_file, p.ret.items, inputs.prices_fault)
    IN  [self |-> p.self, clock |-> p.clock, dividend_file |-> dsave.file,
         price_file |-> psave.file, dividends |-> Outcome(d.ret, dsave.ret),
         prices |-> IF failed THEN "skipped" ELSE Outcome(p.ret, psave.ret), ret |-> None]

(* fetch_data_for_symbol for one ticker, entered at time now: the client, the
   clock and the ticker's two files on return, what each block did, and the
   exception that escapes to main, if any *)
fetch_data_for_symbol(self, now, dividend_file, price_file, inputs) ==
    LET existing_price_range == get_date_range(price_file, "t")
        existing_div_range == get_date_range(dividend_file, "ex_dividend_date")
    IN
    IF IsRaised(existing_price_range) \/ IsRaised(existing_div_range)
    THEN [self |-> self, clock |-> now, dividend_file |-> dividend_file,
          price_file |-> price_file, dividends |-> "skipped", prices |-> "skipped",
          ret |-> Raised("JSONDecodeError")]
    ELSE
    LET d == get_dividends(self, now, inputs.lag1, inputs.dividends_response)
        dsave == IF IsRaised(d.ret) \/ d.ret.items = <<>>
                 THEN [file |-> dividend_file, ret |-> None]
                 ELSE save_dividends(dividend_file, d.ret.items, inputs.dividends_fault)
        p == get_aggregates(d.self, d.clock, inputs.lag2, inputs.prices_response)
        psave == IF IsRaised(p.ret) \/ p.ret.items = <<>>
                 THEN [file |-> price_file, ret |-> None]
                 ELSE save_prices(price_file, p.ret.items, inputs.prices_fault)
    IN  [self |-> p.self, clock |-> p.clock, dividend_file |-> dsave.file,
         price_file |-> psave.file, dividends |-> Outcome(d.ret, dsave.ret),
         prices |-> Outcome(p.ret, psave.ret), ret |-> None]

(* ---- the state machine ---- *)
TargetDates == {-1, to_datetime_iso(180)} \cup BarTimes

PeriodStarts == {to_datetime_iso(0), to_datetime_iso(0) + 1, to_datetime_iso(150)}
PeriodEnds == {to_datetime_iso(0), to_datetime_iso(150)}

(* the instants datetime.now() may return: during day 60, midnight of day 200,
   midnight of day 375 and during day 480 *)
Nows == {to_datetime_iso(60) + 1, to_datetime_iso(200), to_datetime_iso(375),
         to_datetime_iso(480) + 1}

(* The raw collections are listed in key order, as the files DataManager keeps
   are (report_data builds the analyzer from them); rows may share a key, and
   such rows are listed by amount.  _prepare_data sorts by date, so the prepared
   frames do not depend on the order of the input except among rows that share
   a date, and sort_values leaves that order open. *)
InKeyOrder(s, key(_), val(_)) ==
    \A i \in 1..(Len(s) - 1) :
        \/ key(s[i]) < key(s[i + 1])
        \/ key(s[i]) = key(s[i + 1]) /\ val(s[i]) <= val(s[i + 1])

PriceInputs(n) ==
    {s \in SeqsUpTo(RawBars, n) : InKeyOrder(s, LAMBDA r : r.t, LAMBDA r : r.c)}

DividendInputs(n) ==
    {s \in SeqsUpTo(RawDivs, n) :
        InKeyOrder(s, LAMBDA r : r.ex_dividend_date, LAMBDA r : r.cash_amount)}

(* nothing is stored, no request was made and no fetch run is under way: the
   analyzer is given its two collections directly *)
NoFetch ==
    /\ dividend_files = [t \in Tickers |-> NoFile]
    /\ price_files = [t \in Tickers |-> NoFile]
    /\ client = PolygonClient(SecondsPerMinute)
    /\ clock = 0
    /\ symbols_config = <<>>
    /\ symbols_list = <<>>
    /\ processed = <<>>

(* DividendAnalyzer.__init__: keep the two raw collections, then _prepare_data *)
Init ==
    /\ prices \in PriceInputs(MaxRecords)
    /\ dividends \in DividendInputs(MaxRecords - Len(prices))
    /\ prices_df \in prepare_prices(prices)
    /\ dividends_df \in prepare_dividends(dividends)
    /\ call = [op |-> "__init__", args |-> <<>>]
    /\ ret = None
    /\ NoFetch

GetPriceAtDate ==
    \E d \in TargetDates :
        /\ call' = [op |-> "get_price_at_date", args |-> <<d>>]
        /\ ret' = get_price_at_date(prices_df, d)
        /\ UNCHANGED <<dividends, prices, prices_df, dividends_df>>
        /\ UNCHANGED fetch_vars

GetDividendsInPeriod ==
    \E s \in PeriodStarts, e \in PeriodEnds :
        /\ call' = [op |-> "get_dividends_in_period", args |-> <<s, e>>]
        /\ ret' = get_dividends_in_period(dividends_df, s, e)
        /\ UNCHANGED <<dividends, prices, prices_df, dividends_df>>
        /\ UNCHANGED fetch_vars

(* variant: the window ends today (datetime.now()) instead of at the latest bar *)
CalculateMetricsToday ==
    \E m \in Months, today \in Nows :
        /\ call' = [op |-> "calculate_metrics", args |-> <<m>>]
        /\ ret' = IF prices_df = <<>> THEN EmptyMetrics(m)
                  ELSE LET end_date == today
                           target_start_date == end_date - timedelta_days(m * DaysPerMonth)
                           actual_start_date == SetMin(DateCol(prices_df))
                           start_date == IF target_start_date >= actual_start_date
                                         THEN target_start_date ELSE actual_start_date
                           start_price == get_price_at_date(prices_df, start_date)
                           end_price == get_price_at_date(prices_df, end_date)
                       IN  IF start_price = None \/ end_price = None
                           THEN PartialMetrics(m, start_date, end_date, start_price, end_price)
                           ELSE FullMetrics(m, start_date, end_date, start_price, end_price,
                                    get_dividends_in_period(dividends_df, start_date, end_date))
        /\ UNCHANGED <<dividends, prices, prices_df, dividends_df>>
        /\ UNCHANGED fetch_vars

CalculateMetrics ==
    \E m \in Months :
        /\ call' = [op |-> "calculate_metrics", args |-> <<m>>]
        /\ ret' = calculate_metrics(prices_df, dividends_df, m)
        /\ UNCHANGED <<dividends, prices, prices_df, dividends_df>>
        /\ UNCHANGED fetch_vars

(* variant: the filtered frame is stored back into self.prices_df *)
GetPriceHistoryStoring ==
    \E m \in Months :
        /\ call' = [op |-> "get_price_history", args |-> <<m>>]
        /\ ret' = get_price_history(prices_df, m)
        /\ prices_df' = IF prices_df = <<>> THEN prices_df
                        ELSE SelectSeq(prices_df, LAMBDA r :
                                r.date >= window_end(prices_df) - timedelta_days(m * DaysPerMonth))
        /\ UNCHANGED <<dividends, prices, dividends_df>>
        /\ UNCHANGED fetch_vars

GetPriceHistory ==
    \E m \in Months :
        /\ call' = [op |-> "get_price_history", args |-> <<m>>]
        /\ ret' = get_price_history(prices_df, m)
        /\ UNCHANGED <<dividends, prices, prices_df, dividends_df>>
        /\ UNCHANGED fetch_vars

(* datetime.now() is read once in the call; the instant it returned is kept with
   the call *)
GetDividendFrequency ==
    \E today \in Nows :
        /\ call' = [op |-> "get_dividend_frequency", args |-> <<>>, now |-> today]
        /\ ret' = get_dividend_frequency(dividends_df, today)
        /\ UNCHANGED <<dividends, prices, prices_df, dividends_df>>
        /\ UNCHANGED fetch_vars

Next == GetPriceAtDate \/ GetDividendsInPeriod \/ CalculateMetrics

Spec == Init /\ [][Next]_vars

(* ---- a session: any of the five operations, in any order, on one analyzer ---- *)
SessionBars == [t : BarTimes, c : {100000, 100004, 110000}]

SessionPrices(n) ==
    {s \in SeqsUpTo(SessionBars, n) : InKeyOrder(s, LAMBDA r : r.t, LAMBDA r : r.c)}

InitSession ==
    /\ prices \in SessionPrices(MaxRecords)
    /\ dividends \in DividendInputs(MaxRecords - Len(prices))
    /\ prices_df \in prepare_prices(prices)
    /\ dividends_df \in prepare_dividends(dividends)
    /\ call = [op |-> "__init__", args |-> <<>>]
    /\ ret = None
    /\ NoFetch

NextSession ==
    \/ GetPriceAtDate
    \/ GetDividendsInPeriod
    \/ CalculateMetrics
    \/ GetPriceHistory
    \/ GetDividendFrequency

SpecSession == InitSession /\ [][NextSession]_vars

(* ---- dividend histories for the frequency: ex-dividend days that give gaps of
   10, 35, 110 and 111 days and the gaps 28, 31, 29 ---- *)
FrequencyDays == {0, 10, 28, 35, 59, 88, 110, 111}

FrequencyDivs == [ex_dividend_date : FrequencyDays, cash_amount : {5000}]

FrequencyInputs(n) ==
    {s \in SeqsUpTo(FrequencyDivs, n) :
        InKeyOrder(s, LAMBDA r : r.ex_dividend_date, LAMBDA r : r.cash_amount)}

(* an analyzer built from dividends only, as when no price file exists *)
InitFrequency ==
    /\ prices = <<>>
    /\ dividends \in FrequencyInputs(MaxEvents)
    /\ prices_df \in prepare_prices(prices)
    /\ dividends_df \in prepare_dividends(dividends)
    /\ call = [op |-> "__init__", args |-> <<>>]
    /\ ret = None
    /\ NoFetch

NextFrequency == GetDividendFrequency

SpecFrequency == InitFrequency /\ [][NextFrequency]_vars

(* ---- construction from collections in any order ---- *)
UnorderedBars == [t : BarTimes, c : {100000, 110000}]
UnorderedDivs == [ex_dividend_date : DivDays, cash_amount : CashAmounts]

InitUnordered ==
    /\ prices \in SeqsUpTo(UnorderedBars, MaxRecords)
    /\ dividends \in SeqsUpTo(UnorderedDivs, MaxRecords - Len(prices))
    /\ prices_df \in prepare_prices(prices)
    /\ dividends_df \in prepare_dividends(dividends)
    /\ call = [op |-> "__init__", args |-> <<>>]
    /\ ret = None
    /\ NoFetch

NextUnordered == GetPriceAtDate \/ CalculateMetrics

SpecUnordered == InitUnordered /\ [][NextUnordered]_vars

(* ---- the store: save_dividends and save_prices called in any order ---- *)
(* the number of records in one batch *)
MaxBatch == 2

(* the records a batch is made of: two keys, and two records that differ under
   the first key *)
StoreDivs ==
    {[ex_dividend_date |-> 0, cash_amount |-> 4], [ex_dividend_date |-> 0, cash_amount |-> 5000],
     [ex_dividend_date |-> 150, cash_amount |-> 5000]}
StoreBars == {[t |-> 0, c |-> 100000], [t |-> 0, c |-> 110000], [t |-> 1, c |-> 110000]}

DividendBatches == SeqsUpTo(StoreDivs, MaxBatch)
PriceBatches == SeqsUpTo(StoreBars, MaxBatch)

(* the ticker the calls are made for; the files of the others are there too *)
SavedTickers == {"JEPI"}

(* no analyzer is built while data is fetched and stored *)
NoAnalyzer ==
    /\ dividends = <<>>
    /\ prices = <<>>
    /\ prices_df = <<>>
    /\ dividends_df = <<>>

(* DataManager.__init__ on an empty data directory *)
InitStore ==
    /\ NoAnalyzer
    /\ dividend_files = [t \in Tickers |-> NoFile]
    /\ price_files = [t \in Tickers |-> NoFile]
    /\ client = PolygonClient(SecondsPerMinute)
    /\ clock = 0
    /\ symbols_config = <<>>
    /\ symbols_list = <<>>
    /\ processed = <<>>
    /\ call = [op |-> "__init__", args |-> <<>>]
    /\ ret = None

SaveDividends ==
    \E ticker \in SavedTickers, batch \in DividendBatches, fault \in Faults :
        LET saved == save_dividends(dividend_files[ticker], batch, fault)
        IN  /\ call' = [op |-> "save_dividends", args |-> <<ticker, batch>>]
            /\ ret' = saved.ret
            /\ dividend_files' = [dividend_files EXCEPT ![ticker] = saved.file]
            /\ UNCHANGED <<price_files, client, clock, symbols_config, symbols_list, processed>>
            /\ UNCHANGED analyzer_vars

SavePrices ==
    \E ticker \in SavedTickers, batch \in PriceBatches, fault \in Faults :
        LET saved == save_prices(price_files[ticker], batch, fault)
        IN  /\ call' = [op |-> "save_prices", args |-> <<ticker, batch>>]
            /\ ret' = saved.ret
            /\ price_files' = [price_files EXCEPT ![ticker] = saved.file]
            /\ UNCHANGED <<dividend_files, client, clock, symbols_config, symbols_list, processed>>
            /\ UNCHANGED analyzer_vars

NextStore == SaveDividends \/ SavePrices

SpecStore == InitStore /\ [][NextStore]_vars

(* ---- the client: requests made at any moments ---- *)
(* time.time() when the client is built, far from 0 as the present is from the
   epoch, and the latest time explored *)
StartTimes == {100, 101}
MaxClock == 110

Responses == {Raised("HTTPError"), NoResults, Response(<<>>)}

InitClient ==
    /\ NoAnalyzer
    /\ dividend_files = [t \in Tickers |-> NoFile]
    /\ price_files = [t \in Tickers |-> NoFile]
    /\ client \in {PolygonClient(r) : r \in RequestRates}
    /\ clock \in StartTimes
    /\ symbols_config = <<>>
    /\ symbols_list = <<>>
    /\ processed = <<>>
    /\ call = [op |-> "__init__", args |-> <<>>]
    /\ ret = None

(* _make_request entered at the present time; the time of entry and the sleep
   are kept with the call *)
MakeRequest ==
    \E lag \in Lags, response \in Responses :
        LET request == make_request(client, clock, lag, response)
        IN  /\ request.clock <= MaxClock
            /\ call' = [op |-> "_make_request", args |-> <<>>, now |-> clock,
                        slept |-> request.slept]
            /\ ret' = request.ret
            /\ client' = request.self
            /\ clock' = request.clock
            /\ UNCHANGED <<dividend_files, price_files, symbols_config, symbols_list, processed>>
            /\ UNCHANGED analyzer_vars

(* a second passes between two calls *)
Elapse ==
    /\ clock < MaxClock
    /\ clock' = clock + 1
    /\ UNCHANGED <<call, ret, dividend_files, price_files, client,
                   symbols_config, symbols_list, processed>>
    /\ UNCHANGED analyzer_vars

NextClient == MakeRequest \/ Elapse

SpecClient == InitClient /\ [][NextClient]_vars

(* ---- the fetch run: main's loop over symbols_list ---- *)
(* the number of entries of config['symbols'] *)
MaxEntries == 2

SymbolEntries ==
    {EntryStr("SPY"), EntryDict("JEPI"), EntryDictUnderlying("JEPI", "SPY"), EntryOther}

(* what is stored before the run, and what the API may answer *)
StoredDividends == {NoFile, Corrupt, File(<<[ex_dividend_date |-> 0, cash_amount |-> 4]>>)}
StoredPrices == {File(<<[t |-> 0, c |-> 100000]>>)}

DividendResponses ==
    {Raised("HTTPError"), NoResults, Response(<<>>),
     Response(<<[ex_dividend_date |-> 150, cash_amount |-> 5000]>>)}
PriceResponses ==
    {Raised("HTTPError"), Response(<<>>), Response(<<[t |-> 1, c |-> 110000]>>)}

(* in the run time.sleep returns on time; late returns are explored with the
   client alone *)
FetchLags == {0}

(* what a turn of the loop meets: the two answers of the API, the faults of
   the two writes, the lateness of the two sleeps *)
TurnInputs ==
    [dividends_response : DividendResponses, prices_response : PriceResponses,
     dividends_fault : Faults, prices_fault : Faults, lag1 : FetchLags, lag2 : FetchLags]

(* main up to the loop: the client, the data manager, symbols_list *)
InitFetch ==
    /\ NoAnalyzer
    /\ dividend_files \in [Tickers -> StoredDividends]
    /\ price_files \in {[t \in Tickers |-> f] : f \in StoredPrices}
    /\ client = PolygonClient(SecondsPerMinute)
    /\ clock = SetMin(StartTimes)
    /\ symbols_config \in SeqsUpTo(SymbolEntries, MaxEntries)
    /\ symbols_list = sorted_symbols(symbols_to_fetch(symbols_config))
    /\ processed = <<>>
    /\ call = [op |-> "main", args |-> <<>>]
    /\ ret = None

(* one turn of the loop at lines 148-153: fetch_data_for_symbol for the next
   ticker, an exception that escapes it being printed and the loop going on *)
ProcessTicker ==
    /\ Len(processed) < Len(symbols_list)
    /\ LET ticker == symbols_list[Len(processed) + 1]
       IN  \E inputs \in TurnInputs :
             \E done \in {fetch_data_for_symbol(client, clock, dividend_files[ticker],
                                                price_files[ticker], inputs)} :
                 /\ call' = [op |-> "fetch_data_for_symbol", args |-> <<ticker>>]
                 /\ ret' = done.ret
                 /\ client' = done.self
                 /\ clock' = done.clock
                 /\ dividend_files' = [dividend_files EXCEPT ![ticker] = done.dividend_file]
                 /\ price_files' = [price_files EXCEPT ![ticker] = done.price_file]
                 /\ processed' = Append(processed, [ticker |-> ticker, dividends |-> done.dividends,
                                                    prices |-> done.prices])
                 /\ UNCHANGED <<symbols_config, symbols_list>>
                 /\ UNCHANGED analyzer_vars

NextFetch == ProcessTicker

SpecFetch == InitFetch /\ [][NextFetch]_vars

(***************************************************************************)
(* Properties.  They are stated over the raw inputs (prices, dividends),   *)
(* the last call and its result.                                           *)
(***************************************************************************)
IsCall(op) == call.op = op

(* v is the finite float c/1000 *)
IsAmount(v, c) == v.tag = "f" /\ v.n * 1000 = c * v.d

BarIdx == 1..Len(prices)
DivIdx == 1..Len(dividends)

(* the bars dated at or before d, and among them those with the greatest date *)
BarsUpTo(d) == {i \in BarIdx : prices[i].t <= d}
LatestBarsUpTo(d) == {i \in BarsUpTo(d) : \A j \in BarsUpTo(d) : prices[j].t <= prices[i].t}

(* C1: get_price_at_date(d) returns the close of a bar with the greatest date
   that is <= d whenever such a bar exists, hence never the close of a bar
   dated after d. *)
C1_PriceAtOrBefore ==
    IsCall("get_price_at_date") =>
        LET d == call.args[1]
        IN  BarsUpTo(d) # {} => \E i \in LatestBarsUpTo(d) : IsAmount(ret, prices[i].c)

(* an earlier bar, the bar at or before d, and a later bar with three different
   closes: the lookup answered with the middle one *)
C1_Witness ==
    /\ IsCall("get_price_at_date")
    /\ \E i, j, k \in BarIdx :
        /\ prices[i].t < prices[j].t /\ prices[j].t <= call.args[1]
        /\ call.args[1] < prices[k].t
        /\ prices[i].c # prices[j].c /\ prices[j].c # prices[k].c /\ prices[i].c # prices[k].c
        /\ IsAmount(ret, prices[j].c)

(* C2: get_price_at_date(d) returns None exactly when no bar is dated at or
   before d (the series is empty or every bar is after d); for d >= the
   greatest date it returns the close of a bar with that date, for d < the
   least date it returns None; it never raises. *)
C2_AbsentIffNoBar ==
    IsCall("get_price_at_date") =>
        LET d == call.args[1]
        IN  /\ ~IsRaised(ret)
            /\ (ret = None) <=> (BarsUpTo(d) = {})
            /\ (BarIdx # {} /\ \A i \in BarIdx : prices[i].t <= d) =>
                    \E i \in BarIdx : /\ \A j \in BarIdx : prices[j].t <= prices[i].t
                                      /\ IsAmount(ret, prices[i].c)
            /\ (BarIdx # {} /\ \A i \in BarIdx : d < prices[i].t) => ret = None

(* a lookup before the first bar of a non-empty series came back absent *)
C2_Witness ==
    /\ IsCall("get_price_at_date")
    /\ BarIdx # {}
    /\ \A i \in BarIdx : call.args[1] < prices[i].t
    /\ ret = None

(* ---- the window and the amounts of a calculate_metrics call, from the raw inputs ---- *)
RECURSIVE SumCashAt(_)
SumCashAt(I) ==
    IF I = {} THEN 0
    ELSE LET i == CHOOSE x \in I : TRUE
         IN  dividends[i].cash_amount + SumCashAt(I \ {i})

(* the dividends whose ex-date (midnight) lies in [lo, hi] *)
DivsBetween(lo, hi) ==
    {i \in DivIdx : lo <= dividends[i].ex_dividend_date * TicksPerDay
                    /\ dividends[i].ex_dividend_date * TicksPerDay <= hi}

CallMonths == call.args[1]
EndT == SetMax({prices[i].t : i \in BarIdx})
FirstT == SetMin({prices[i].t : i \in BarIdx})
TargetT == EndT - CallMonths * 30 * TicksPerDay
StartT == IF TargetT >= FirstT THEN TargetT ELSE FirstT
DayOf(t) == t \div TicksPerDay

FinancialKeys ==
    {"start_price", "end_price", "price_change", "price_change_pct", "total_dividends",
     "dividend_yield_pct", "total_return", "total_return_pct",
     "profitable_price", "profitable_total"}

IsMetrics(r) == DOMAIN r = MetricKeys
Populated(r) == IsMetrics(r) /\ \A k \in FinancialKeys : r[k] # None
IsZero(v) == v.tag = "f" /\ v.n = 0

(* v is num/den (den # 0) rounded to the nearest hundredth *)
IsRounded2(v, num, den) ==
    /\ v.tag = "f" /\ v.d = 100
    /\ 2 * Abs(v.n * Abs(den) - 100 * (IF den < 0 THEN -num ELSE num)) <= Abs(den)

(* v is x / y * 100 rounded to the nearest hundredth, the quotient by zero being
   inf, -inf or nan by the sign of x *)
IsPct2(v, x, y) ==
    IF y # 0 THEN IsRounded2(v, 100 * x, y)
    ELSE v = (IF x > 0 THEN Inf ELSE IF x < 0 THEN NegInf ELSE NaN)

(* C3 (as claimed): get_dividends_in_period(start, end) is the sum of the cash
   amounts of the events with start <= ex_date <= end, 0.0 when there is none;
   and with no dividends and some prices calculate_metrics reports
   total_dividends = 0.0 and dividend_yield_pct = 0.0. *)
C3_SumInRange ==
    IsCall("get_dividends_in_period") =>
        IsAmount(ret, SumCashAt(DivsBetween(call.args[1], call.args[2])))

C3_DividendsInRange ==
    /\ C3_SumInRange
    /\ (IsCall("calculate_metrics") /\ dividends = <<>> /\ prices # <<>>) =>
            /\ Populated(ret)
            /\ IsZero(ret.total_dividends)
            /\ IsZero(ret.dividend_yield_pct)

(* C4 (as claimed): a populated record's total_dividends is the sum of the
   dividends whose ex-dividend day lies between the reported start_date and
   end_date, both days included. *)
C4_DividendsByCalendarDay ==
    (IsCall("calculate_metrics") /\ Populated(ret)) =>
        IsRounded2(ret.total_dividends,
                   SumCashAt({i \in DivIdx :
                                /\ ret.start_date.day <= dividends[i].ex_dividend_date
                                /\ dividends[i].ex_dividend_date <= ret.end_date.day}),
                   1000)

(* C5: on a non-empty price series calculate_metrics reports end_date = the
   latest price day and start_date = max(end_date - 30*m days, earliest price
   day). *)
C5_WindowClamp ==
    (IsCall("calculate_metrics") /\ prices # <<>>) =>
        LET endDay == DayOf(EndT)
            firstDay == DayOf(FirstT)
            targetDay == endDay - 30 * CallMonths
        IN  /\ IsMetrics(ret)
            /\ ret.end_date = DateStr(endDay)
            /\ ret.start_date = DateStr(IF targetDay >= firstDay THEN targetDay ELSE firstDay)

(* the requested window reaches before the earliest bar and the reported start
   is the earliest day *)
C5_Witness ==
    /\ IsCall("calculate_metrics") /\ Len(prices) = 2
    /\ DayOf(FirstT) < DayOf(EndT)
    /\ CallMonths > 0
    /\ DayOf(EndT) - 30 * CallMonths < DayOf(FirstT)
    /\ IsMetrics(ret)
    /\ ret.start_date = DateStr(DayOf(FirstT))

(* C6: when both prices resolve, the reported fields are the 2-decimal roundings
   of price_change = end - start, price_change / start * 100, dividends / start
   * 100, total_return = price_change + dividends and total_return / start *
   100; and for closes 100 and 110 exactly 180 days apart with dividends of 5 in
   the window the record is 10, 10.0, 5.0, 15, 15.0, true, true. *)
C6_Formulas ==
    (IsCall("calculate_metrics") /\ Populated(ret)) =>
        \E i \in LatestBarsUpTo(StartT), j \in LatestBarsUpTo(EndT) :
            LET sp == prices[i].c
                ep == prices[j].c
                td == SumCashAt(DivsBetween(StartT, EndT))
            IN  /\ IsRounded2(ret.price_change, ep - sp, 1000)
                /\ IsPct2(ret.price_change_pct, ep - sp, sp)
                /\ IsPct2(ret.dividend_yield_pct, td, sp)
                /\ IsRounded2(ret.total_return, ep - sp + td, 1000)
                /\ IsPct2(ret.total_return_pct, ep - sp + td, sp)

C6_ScenarioInput ==
    /\ IsCall("calculate_metrics") /\ CallMonths = 6
    /\ Len(prices) = 2
    /\ prices[1].c = 100000 /\ prices[2].c = 110000
    /\ prices[2].t - prices[1].t = 180 * TicksPerDay
    /\ \A i \in DivIdx : /\ DayOf(prices[1].t) < dividends[i].ex_dividend_date
                         /\ dividends[i].ex_dividend_date <= DayOf(prices[2].t)
    /\ SumCashAt(DivIdx) = 5000

C6_Scenario ==
    C6_ScenarioInput =>
        /\ IsMetrics(ret)
        /\ ret.price_change = Fl(1000, 100)
        /\ ret.price_change_pct = Fl(1000, 100)
        /\ ret.dividend_yield_pct = Fl(500, 100)
        /\ ret.total_return = Fl(1500, 100)
        /\ ret.total_return_pct = Fl(1500, 100)
        /\ ret.profitable_price = Bool(TRUE)
        /\ ret.profitable_total = Bool(TRUE)

C6_Metrics == C6_Formulas /\ C6_Scenario

C6_Witness == C6_ScenarioInput /\ Populated(ret) /\ ret.total_return = Fl(1500, 100)

(* C7: on an empty price series calculate_metrics returns, without raising, a
   record whose period_months is the requested value and whose twelve other
   fields are all absent, whatever the dividends are. *)
C7_EmptyPrices ==
    (IsCall("calculate_metrics") /\ prices = <<>>) =>
        /\ IsMetrics(ret)
        /\ ret.period_months = CallMonths
        /\ \A k \in MetricKeys \ {"period_months"} : ret[k] = None

(* no prices, some dividends, and a six-month request *)
C7_Witness ==
    /\ IsCall("calculate_metrics") /\ prices = <<>> /\ dividends # <<>>
    /\ CallMonths = 6
    /\ IsMetrics(ret) /\ ret.period_months = 6 /\ ret.total_dividends = None

(* C8: a record returned by calculate_metrics has its ten financial fields all
   populated or all absent. *)
C8_AllOrNothing ==
    IsCall("calculate_metrics") =>
        /\ IsMetrics(ret)
        /\ \/ \A k \in FinancialKeys : ret[k] = None
           \/ \A k \in FinancialKeys : ret[k] # None

(* a populated record whose window starts on the earliest bar of a series that
   spans several dates *)
C8_Witness ==
    /\ IsCall("calculate_metrics") /\ Populated(ret)
    /\ FirstT < EndT /\ StartT = FirstT
    /\ ~IsZero(ret.start_price) /\ ~IsZero(ret.end_price)

(* C9 (as claimed): on the output record a reported price_change of 0 goes with
   profitable_price = false and a reported total_return of 0 with
   profitable_total = false. *)
C9_StrictOnOutput ==
    (IsCall("calculate_metrics") /\ Populated(ret)) =>
        /\ IsZero(ret.price_change) => ret.profitable_price = Bool(FALSE)
        /\ IsZero(ret.total_return) => ret.profitable_total = Bool(FALSE)

(* C9 (amended): the flags are strict on the values before rounding:
   profitable_price is true exactly when end_price - start_price > 0 and
   profitable_total exactly when end_price - start_price + dividends > 0, so a
   change of exactly zero is never flagged; a reported 0.00 is flagged
   profitable when the unrounded value is positive and rounds to 0.00. *)
C9_StrictBeforeRounding ==
    (IsCall("calculate_metrics") /\ Populated(ret)) =>
        \E i \in LatestBarsUpTo(StartT), j \in LatestBarsUpTo(EndT) :
            LET change == prices[j].c - prices[i].c
                return == change + SumCashAt(DivsBetween(StartT, EndT))
            IN  /\ IsRounded2(ret.price_change, change, 1000)
                /\ IsRounded2(ret.total_return, return, 1000)
                /\ ret.profitable_price = Bool(change > 0)
                /\ ret.profitable_total = Bool(return > 0)

(* two bars on different dates with the same close and no dividend in between:
   change and return are exactly zero and neither flag is set *)
C9_Witness ==
    /\ IsCall("calculate_metrics") /\ Populated(ret)
    /\ Len(prices) = 2 /\ prices[1].t < prices[2].t
    /\ prices[1].c = prices[2].c /\ prices[1].c > 0
    /\ StartT = FirstT /\ DivsBetween(StartT, EndT) = {}
    /\ IsZero(ret.price_change) /\ ret.profitable_price = Bool(FALSE)
    /\ IsZero(ret.total_return) /\ ret.profitable_total = Bool(FALSE)

(* C10: calculate_metrics never raises and always returns a record with the 13
   keys, for empty series and for a start price of 0 as well. *)
C10_NoFatalError ==
    IsCall("calculate_metrics") => ~IsRaised(ret) /\ IsMetrics(ret)

(* the start price resolved to 0, the end price is higher, and the percentage is
   the infinity numpy's division returns *)
C10_Witness ==
    /\ IsCall("calculate_metrics") /\ Populated(ret)
    /\ IsZero(ret.start_price) /\ ~IsZero(ret.end_price)
    /\ ret.price_change_pct = Inf

(* C11: the result of calculate_metrics(m) and of get_price_history(m) is the
   value the operation computes from the stored series and m, and a call
   repeated with the same arguments, at whatever time, returns what the
   previous one returned; the same holds for get_price_at_date and
   get_dividends_in_period.  Only get_dividend_frequency reads the clock: its
   result is a function of the dividend series and of the instant read. *)
C11_Step ==
    /\ (call' = call /\ call'.op # "get_dividend_frequency") => ret' = ret
    /\ call'.op = "calculate_metrics" =>
            ret' = calculate_metrics(prices_df, dividends_df, call'.args[1])
    /\ call'.op = "get_price_history" => ret' = get_price_history(prices_df, call'.args[1])
    /\ call'.op = "get_dividend_frequency" =>
            ret' = get_dividend_frequency(dividends_df, call'.now)

C11_ClockFree == [][C11_Step]_vars

(* a populated record whose end_date is the latest price day although no
   analysis time falls on that day, over dividends whose frequency label does
   change with the time of analysis *)
C11_Witness ==
    /\ IsCall("calculate_metrics") /\ Populated(ret)
    /\ CallMonths > 0 /\ ~IsZero(ret.start_price)
    /\ ret.end_date = DateStr(DayOf(EndT))
    /\ \A t \in Nows : strftime(t) # DayOf(EndT)
    /\ \E t1, t2 \in Nows :
            get_dividend_frequency(dividends_df, t1) # get_dividend_frequency(dividends_df, t2)

(* C12: no call changes the raw inputs or the stored price and dividend frames,
   which stay the frames construction produced; and whatever calls came before,
   calculate_metrics(m) returns the record it computes from those frames, the
   one a first call on the freshly built analyzer returns, so calling it again
   returns the same record. *)
C12_Fresh ==
    /\ prices_df \in prepare_prices(prices)
    /\ dividends_df \in prepare_dividends(dividends)

C12_Step ==
    /\ UNCHANGED <<prices, dividends, prices_df, dividends_df>>
    /\ call'.op = "calculate_metrics" =>
            /\ ret' = calculate_metrics(prices_df, dividends_df, call'.args[1])
            /\ (call = call') => ret' = ret

C12_ReadOnly == []C12_Fresh /\ [][C12_Step]_vars

(* a populated record over a series spanning several dates, equal to what the
   frames built from the inputs give *)
C12_Witness ==
    /\ IsCall("calculate_metrics") /\ Populated(ret)
    /\ FirstT < EndT /\ dividends # <<>>
    /\ ~IsZero(ret.start_price)
    /\ C12_Fresh
    /\ ret = calculate_metrics(prices_df, dividends_df, CallMonths)

(* ---- the events a get_dividend_frequency call keeps, from the raw inputs ---- *)
CallNow == call.now
ExDay(i) == dividends[i].ex_dividend_date

(* the events dated at or after now - 365 days *)
Recent == {i \in DivIdx : ExDay(i) * TicksPerDay >= CallNow - 365 * TicksPerDay}

(* the sum of the day-gaps between consecutive events of W, taken in date order *)
RECURSIVE GapSum(_)
GapSum(W) ==
    IF Cardinality(W) < 2 THEN 0
    ELSE LET i == CHOOSE x \in W : \A y \in W : ExDay(x) <= ExDay(y)
             rest == W \ {i}
             j == CHOOSE x \in rest : \A y \in rest : ExDay(x) <= ExDay(y)
         IN  (ExDay(j) - ExDay(i)) + GapSum(rest)

(* the label of a mean gap of total / count days *)
LabelOfMean(total, count) ==
    IF total <= 10 * count THEN Label("W")
    ELSE IF total <= 35 * count THEN Label("M")
    ELSE IF total <= 110 * count THEN Label("Q")
    ELSE Label("")

(* the kept events are four, at gaps of 28, 31 and 29 days *)
GapsMonthly ==
    /\ Cardinality(Recent) = 4
    /\ \E a, b, c, d \in Recent :
        /\ ExDay(b) - ExDay(a) = 28 /\ ExDay(c) - ExDay(b) = 31 /\ ExDay(d) - ExDay(c) = 29

(* C13: with two or more kept events get_dividend_frequency returns the label of
   the arithmetic mean of the day-gaps between consecutive event dates, the
   thresholds being inclusive and tested in order: <= 10 'W', <= 35 'M', <= 110
   'Q', otherwise ''; gaps 28, 31, 29 give 'M' and means of exactly 10, 35 and
   110 give 'W', 'M' and 'Q'. *)
C13_MeanGapLabel ==
    (IsCall("get_dividend_frequency") /\ Cardinality(Recent) >= 2) =>
        LET total == GapSum(Recent)
            count == Cardinality(Recent) - 1
        IN  /\ ret = LabelOfMean(total, count)
            /\ total = 10 * count => ret = Label("W")
            /\ total = 35 * count => ret = Label("M")
            /\ total = 110 * count => ret = Label("Q")
            /\ total > 110 * count => ret = Label("")
            /\ GapsMonthly => ret = Label("M")

(* the history with gaps 28, 31, 29, all of it within the year before the
   analysis, was labelled monthly *)
C13_Witness ==
    /\ IsCall("get_dividend_frequency")
    /\ GapsMonthly
    /\ \A i \in DivIdx : ExDay(i) * TicksPerDay <= CallNow
    /\ ret = Label("M")

(* the events of the trailing 365 days: now - 365 days <= ex-date <= now *)
Trailing ==
    {i \in DivIdx : /\ ExDay(i) * TicksPerDay >= CallNow - 365 * TicksPerDay
                    /\ ExDay(i) * TicksPerDay <= CallNow}

(* C14 (as claimed): get_dividend_frequency takes the gaps and the event count
   from the events with now - 365 days <= ex-date <= now only; events older
   than that and events dated after the time of analysis do not contribute. *)
C14_TrailingWindowOnly ==
    IsCall("get_dividend_frequency") =>
        ret = IF Cardinality(Trailing) >= 2
              THEN LabelOfMean(GapSum(Trailing), Cardinality(Trailing) - 1)
              ELSE Label("")

(* the half of C14 that holds: events older than now - 365 days do not
   contribute, the label is that of the events dated at or after it *)
C14_OlderIgnored ==
    IsCall("get_dividend_frequency") =>
        ret = IF Cardinality(Recent) >= 2
              THEN LabelOfMean(GapSum(Recent), Cardinality(Recent) - 1)
              ELSE Label("")

(* C15: get_dividend_frequency returns '' whenever fewer than 2 events are kept
   by the 365-day window, in particular for an empty dividend series, for a
   single event, and for a history whose events all precede the window. *)
C15_FewEventsUnknown ==
    IsCall("get_dividend_frequency") =>
        /\ Cardinality(Recent) < 2 => ret = Label("")
        /\ Len(dividends) < 2 => ret = Label("")
        /\ (\A i \in DivIdx : ExDay(i) * TicksPerDay < CallNow - 365 * TicksPerDay) =>
                ret = Label("")

(* a monthly history of four events (gaps 28, 31, 29), all older than the
   window, came back unknown *)
C15_Witness ==
    /\ IsCall("get_dividend_frequency")
    /\ Len(dividends) = 4
    /\ \E a, b, c, d \in DivIdx :
        /\ ExDay(b) - ExDay(a) = 28 /\ ExDay(c) - ExDay(b) = 31 /\ ExDay(d) - ExDay(c) = 29
    /\ \A i \in DivIdx : ExDay(i) * TicksPerDay < CallNow - 365 * TicksPerDay
    /\ Recent = {}
    /\ ret = Label("")

(* the bars dated at or after the latest bar's date minus 30*m days *)
HistoryBars == {i \in BarIdx : prices[i].t >= EndT - 30 * CallMonths * TicksPerDay}

(* items lists the bars of I, one pair (day, close) per bar, in date order *)
ListsBars(items, I) ==
    /\ Len(items) = Cardinality(I)
    /\ \E f \in [1..Len(items) -> I] :
        /\ \A k, l \in 1..Len(items) : k # l => f[k] # f[l]
        /\ \A k \in 1..(Len(items) - 1) : prices[f[k]].t <= prices[f[k + 1]].t
        /\ \A k \in 1..Len(items) :
            /\ items[k][1] = DateStr(DayOf(prices[f[k]].t))
            /\ IsAmount(items[k][2], prices[f[k]].c)

C16_Result ==
    IsCall("get_price_history") =>
        /\ ret.tag = "list"
        /\ prices = <<>> => ret.items = <<>>
        /\ prices # <<>> =>
            /\ ListsBars(ret.items, HistoryBars)
            /\ \A k \in 1..(Len(ret.items) - 1) : ret.items[k][1].day <= ret.items[k + 1][1].day

C16_Repeat ==
    (call.op = "get_price_history" /\ call'.op = "get_price_history" /\ call'.args = call.args)
        => ret' = ret

(* C16: get_price_history(m) returns, in ascending date order, exactly the bars
   dated at or after the latest bar's date minus 30*m days (the start is not
   clamped), one (day, close) pair per bar; the empty list for an empty price
   series; and a second call with the same m returns the same list. *)
C16_PriceHistory == []C16_Result /\ [][C16_Repeat]_vars

(* three bars, one before the start, one exactly at it and the latest: the
   history is the last two *)
C16_Witness ==
    /\ IsCall("get_price_history") /\ Len(prices) = 3
    /\ \E i, j \in BarIdx :
        /\ prices[i].t < EndT - 30 * CallMonths * TicksPerDay
        /\ prices[j].t = EndT - 30 * CallMonths * TicksPerDay
        /\ prices[j].t < EndT
    /\ \A i, j \in BarIdx : prices[i].c > 0 /\ (i # j => prices[i].c # prices[j].c)
    /\ Len(ret.items) = 2
    /\ ret.items[2][1] = DateStr(DayOf(EndT))

(* the calendar dates a range may be split at *)
SplitDates == {to_datetime_iso(0), to_datetime_iso(75), to_datetime_iso(149)}

(* C17: for calendar dates start <= mid < end, get_dividends_in_period(start,
   mid) + get_dividends_in_period(mid + 1 day, end) equals
   get_dividends_in_period(start, end): no event is counted twice or dropped
   when the range is split. *)
C17_Additive ==
    IsCall("get_dividends_in_period") =>
        \A mid \in SplitDates :
            (call.args[1] <= mid /\ mid < call.args[2]) =>
                FAdd(get_dividends_in_period(dividends_df, call.args[1], mid),
                     get_dividends_in_period(dividends_df, mid + timedelta_days(1), call.args[2]))
                    = ret

(* a range with an event on its first and one on its last day, of different
   amounts, split right after the first day: each part holds one of them *)
C17_Witness ==
    /\ IsCall("get_dividends_in_period")
    /\ call.args = <<to_datetime_iso(0), to_datetime_iso(150)>>
    /\ \E i, j \in DivIdx :
        /\ ExDay(i) = 0 /\ ExDay(j) = 150
        /\ dividends[i].cash_amount # dividends[j].cash_amount
    /\ ~IsZero(get_dividends_in_period(dividends_df, to_datetime_iso(0), to_datetime_iso(0)))
    /\ ~IsZero(get_dividends_in_period(dividends_df, to_datetime_iso(1), to_datetime_iso(150)))
    /\ IsAmount(ret, SumCashAt(DivIdx))

(* ---- the frames construction stores, against the raw collections ---- *)
Ascending(df) == \A i \in 1..(Len(df) - 1) : df[i].date <= df[i + 1].date
StrictlyAscending(df) == \A i \in 1..(Len(df) - 1) : df[i].date < df[i + 1].date

(* df holds the records of raw, each once, in some order *)
SameRecords(df, raw, fields) ==
    /\ Len(df) = Len(raw)
    /\ \E p \in [1..Len(raw) -> 1..Len(raw)] :
        /\ \A i, j \in 1..Len(raw) : i # j => p[i] # p[j]
        /\ \A i \in 1..Len(raw) : \A f \in fields : df[i][f] = raw[p[i]][f]

DistinctBarTimes == \A i, j \in BarIdx : i # j => prices[i].t # prices[j].t
DistinctExDays == \A i, j \in DivIdx : i # j => ExDay(i) # ExDay(j)

(* C18 (as claimed): after construction from any two collections the price
   sequence and the dividend sequence are each strictly ascending by date, no
   two entries sharing a date; an empty collection gives an empty sequence. *)
C18_StrictlySorted ==
    /\ StrictlyAscending(prices_df) /\ StrictlyAscending(dividends_df)
    /\ prices = <<>> => prices_df = <<>>
    /\ dividends = <<>> => dividends_df = <<>>

(* C18 (amended): construction keeps every record and sorts, it does not
   deduplicate: each sequence holds the records of its collection, each once,
   ascending by date; it is strictly ascending, no two entries sharing a date,
   exactly when the collection has no two records with the same date (the same
   timestamp t for bars, the same ex_dividend_date for dividends); an empty
   collection gives an empty sequence. *)
C18_SortedNotDeduplicated ==
    /\ Ascending(prices_df) /\ Ascending(dividends_df)
    /\ SameRecords(prices_df, prices, {"t", "c"})
    /\ SameRecords(dividends_df, dividends, {"ex_dividend_date", "cash_amount"})
    /\ StrictlyAscending(prices_df) <=> DistinctBarTimes
    /\ StrictlyAscending(dividends_df) <=> DistinctExDays
    /\ prices = <<>> => prices_df = <<>>
    /\ dividends = <<>> => dividends_df = <<>>

(* three bars of different dates given latest first, stored strictly ascending *)
C18_Witness ==
    /\ Len(prices) = 3
    /\ prices[1].t > prices[2].t /\ prices[2].t > prices[3].t
    /\ StrictlyAscending(prices_df)
    /\ prices_df[1].t = prices[3].t /\ prices_df[3].t = prices[1].t

(* C19 (as claimed): the stored date of a bar is its calendar day, the time of
   day of the raw timestamp being discarded: two bars stamped within the same
   calendar day have equal dates, and get_price_at_date(D) for a calendar date
   D (a midnight) returns the close of a bar of day D when there is one. *)
C19_NormalizedToDate ==
    /\ \A i, j \in 1..Len(prices_df) :
            DayOf(prices_df[i].t) = DayOf(prices_df[j].t) => prices_df[i].date = prices_df[j].date
    /\ (IsCall("get_price_at_date") /\ call.args[1] % TicksPerDay = 0) =>
            LET OfDay == {i \in BarIdx : DayOf(prices[i].t) = DayOf(call.args[1])}
            IN  OfDay # {} => \E i \in OfDay : IsAmount(ret, prices[i].c)

(* the bars of the input stamped t, and the one given last among them *)
BarsAt(t) == {i \in BarIdx : prices[i].t = t}
LastBarAt(t) == SetMax(BarsAt(t))

(* C20 (as claimed): when several input bars share a date, the one given last in
   the input wins: get_price_at_date for that date returns its close, and so
   does end_price of calculate_metrics when that date is the latest. *)
C20_LastOccurrenceWins ==
    /\ (IsCall("get_price_at_date") /\ BarsAt(call.args[1]) # {}) =>
            IsAmount(ret, prices[LastBarAt(call.args[1])].c)
    /\ (IsCall("calculate_metrics") /\ Populated(ret)) =>
            IsRounded2(ret.end_price, prices[LastBarAt(EndT)].c, 1000)

(* what does hold: the close returned is that of one of the bars sharing the date *)
C20_SomeOccurrence ==
    /\ (IsCall("get_price_at_date") /\ BarsAt(call.args[1]) # {}) =>
            \E i \in BarsAt(call.args[1]) : IsAmount(ret, prices[i].c)
    /\ (IsCall("calculate_metrics") /\ Populated(ret)) =>
            \E i \in BarsAt(EndT) : IsRounded2(ret.end_price, prices[i].c, 1000)

(* C22: for a non-empty price series and window_months >= 0 calculate_metrics
   resolves both prices and returns the fully populated record, with earliest
   price day <= start_date <= end_date = latest price day; the record with
   dates and no prices is not returned. *)
C22_BothPricesResolve ==
    (IsCall("calculate_metrics") /\ prices # <<>> /\ CallMonths >= 0) =>
        /\ Populated(ret)
        /\ DayOf(FirstT) <= ret.start_date.day
        /\ ret.start_date.day <= ret.end_date.day
        /\ ret.end_date.day = DayOf(EndT)
        /\ \E i \in BarIdx : IsRounded2(ret.start_price, prices[i].c, 1000)
        /\ \E i \in BarIdx : /\ prices[i].t = EndT
                            /\ IsRounded2(ret.end_price, prices[i].c, 1000)

(* a window of one month over a series spanning half a year: the start lies
   strictly between two bars, later than the earliest, and both prices are
   there *)
C22_Witness ==
    /\ IsCall("calculate_metrics") /\ CallMonths = 1
    /\ Len(prices) >= 2 /\ FirstT < StartT /\ StartT < EndT
    /\ \A i \in BarIdx : prices[i].t # StartT /\ prices[i].c > 0
    /\ Populated(ret)
    /\ DayOf(FirstT) < ret.start_date.day /\ ret.start_date.day < ret.end_date.day

(* C23 (as claimed): in a populated record the reported total_return equals the
   reported price_change plus the reported total_dividends. *)
C23_RoundedFieldsAdd ==
    (IsCall("calculate_metrics") /\ Populated(ret)) =>
        ret.total_return.n = ret.price_change.n + ret.total_dividends.n

(* C23 (amended): each of the three reported fields is the rounding of its own
   unrounded value, total_return being rounded from the unrounded price change
   plus the unrounded dividends; the reported total_return therefore differs
   from the sum of the two other reported fields by at most one hundredth. *)
C23_AddWithinHundredth ==
    (IsCall("calculate_metrics") /\ Populated(ret)) =>
        /\ \E i \in LatestBarsUpTo(StartT), j \in LatestBarsUpTo(EndT) :
            LET change == prices[j].c - prices[i].c
                divs == SumCashAt(DivsBetween(StartT, EndT))
            IN  /\ IsRounded2(ret.price_change, change, 1000)
                /\ IsRounded2(ret.total_dividends, divs, 1000)
                /\ IsRounded2(ret.total_return, change + divs, 1000)
        /\ Abs(ret.total_return.n - ret.price_change.n - ret.total_dividends.n) <= 1

(* a rise of 0.004 and a dividend of 0.004: both are reported as 0.0 and the
   return of 0.008 as 0.01 *)
C23_Witness ==
    /\ IsCall("calculate_metrics") /\ Populated(ret)
    /\ IsZero(ret.price_change) /\ IsZero(ret.total_dividends)
    /\ ret.total_return = Fl(1, 100)

(* C24: with two or more kept events the sum of the consecutive day-gaps is the
   latest kept ex-day minus the earliest, so the label is that of (latest -
   earliest) / (n - 1) whatever the spacing of the events in between. *)
C24_Telescopes ==
    (IsCall("get_dividend_frequency") /\ Cardinality(Recent) >= 2) =>
        LET latest == SetMax({ExDay(i) : i \in Recent})
            earliest == SetMin({ExDay(i) : i \in Recent})
        IN  /\ GapSum(Recent) = latest - earliest
            /\ ret = LabelOfMean(latest - earliest, Cardinality(Recent) - 1)

(* four kept events none later than the analysis, with one gap of at most 10
   days and one of more than 35 between neighbours: the label is that of the
   span over three, quarterly *)
C24_Witness ==
    /\ IsCall("get_dividend_frequency")
    /\ Cardinality(Recent) = 4
    /\ \A i \in DivIdx : ExDay(i) * TicksPerDay <= CallNow
    /\ \E a, b, c, d \in Recent :
        /\ ExDay(a) < ExDay(b) /\ ExDay(b) < ExDay(c) /\ ExDay(c) < ExDay(d)
        /\ ExDay(b) - ExDay(a) <= 10
        /\ ExDay(d) - ExDay(c) > 35
        /\ 35 * 3 < ExDay(d) - ExDay(a)
    /\ ret = Label("Q")

(* ---- the stored lists, against the batches of the save calls ---- *)
KeysOf(records, key) == {records[i][key] : i \in 1..Len(records)}

StoredRecords(file) == IF file.tag = "json" THEN file.records ELSE <<>>

(* strictly ascending keys: sorted, and no key twice *)
KeyOrdered(records, key) ==
    \A i \in 1..(Len(records) - 1) : records[i][key] < records[i + 1][key]

(* the last record of batch that has key k *)
LastWith(batch, key, k) ==
    batch[SetMax({i \in 1..Len(batch) : batch[i][key] = k})]

(* new lists, in key order, the map old overwritten with batch: every key of
   old and of batch, under each the last record of batch that has it, or else
   the record old had *)
MergedAs(old, batch, new, key) ==
    /\ KeyOrdered(new, key)
    /\ KeysOf(new, key) = KeysOf(old, key) \cup KeysOf(batch, key)
    /\ \A i \in 1..Len(new) :
        LET k == new[i][key]
        IN  IF k \in KeysOf(batch, key) THEN new[i] = LastWith(batch, key, k)
            ELSE \E j \in 1..Len(old) : old[j] = new[i]

C21_Stored ==
    \A t \in Tickers :
        /\ KeyOrdered(StoredRecords(dividend_files[t]), "ex_dividend_date")
        /\ KeyOrdered(StoredRecords(price_files[t]), "t")

(* a save call that returns leaves the merge of the list it found and its
   batch; one that raises leaves the file as it was or unreadable; no other
   file changes *)
C21_Step ==
    /\ call'.op = "save_dividends" =>
        LET t == call'.args[1]
        IN  /\ ret' = None =>
                /\ dividend_files'[t].tag = "json"
                /\ MergedAs(StoredRecords(dividend_files[t]), call'.args[2],
                            dividend_files'[t].records, "ex_dividend_date")
            /\ ret' # None => dividend_files'[t] \in {dividend_files[t], Corrupt}
            /\ \A u \in Tickers \ {t} : dividend_files'[u] = dividend_files[u]
            /\ price_files' = price_files
    /\ call'.op = "save_prices" =>
        LET t == call'.args[1]
        IN  /\ ret' = None =>
                /\ price_files'[t].tag = "json"
                /\ MergedAs(StoredRecords(price_files[t]), call'.args[2],
                            price_files'[t].records, "t")
            /\ ret' # None => price_files'[t] \in {price_files[t], Corrupt}
            /\ \A u \in Tickers \ {t} : price_files'[u] = price_files[u]
            /\ dividend_files' = dividend_files

(* C21: starting from an empty store, every stored list has unique, strictly
   ascending keys, and each save_dividends (save_prices) call that returns
   leaves the key-ordered contents of the map it found overwritten with its
   batch: every key stored before is still there, and a key of the batch holds
   the batch's last record with that key. *)
C21_MergeOverwrite == []C21_Stored /\ [][C21_Step]_vars

(* after a batch with one ex-date and then a batch that has another ex-date
   twice, the list holds the second batch's last record followed by the first
   batch's record *)
C21_Witness ==
    /\ IsCall("save_dividends") /\ ret = None
    /\ call.args[2] = <<[ex_dividend_date |-> 0, cash_amount |-> 4],
                        [ex_dividend_date |-> 0, cash_amount |-> 5000]>>
    /\ dividend_files[call.args[1]] =
            File(<<[ex_dividend_date |-> 0, cash_amount |-> 5000],
                   [ex_dividend_date |-> 150, cash_amount |-> 5000]>>)

(* a step of the client specification that is a _make_request call, not the
   passing of time *)
IsRequestStep == call' # call \/ client' # client \/ ret' # ret

C25_Client ==
    /\ client.min_request_interval * client.requests_per_minute = 60
    /\ client.last_request_time <= clock

C25_Step ==
    IsRequestStep =>
        /\ call'.op = "_make_request"
        /\ client'.last_request_time - client.last_request_time >= client.min_request_interval
        /\ client'.last_request_time >= call'.now + call'.slept
        /\ client.last_request_time = 0 => call'.slept = 0
        /\ UNCHANGED <<client.requests_per_minute, client.min_request_interval>>

(* C25: each _make_request call, whether its request succeeds or raises, stamps
   last_request_time at least min_request_interval = 60 / requests_per_minute
   seconds after the previous stamp and not before the end of its sleep; the
   first call on a client does not sleep. *)
C25_RequestSpacing == []C25_Client /\ [][C25_Step]_vars

(* at 20 requests per minute a call made one second after the previous stamp
   slept the remaining two seconds, was stamped three or more seconds after it,
   and its request failed *)
C25_Witness ==
    /\ IsCall("_make_request")
    /\ client.requests_per_minute = 20
    /\ call.slept = 2
    /\ client.last_request_time >= call.now + 2
    /\ IsRaised(ret)

(* ---- the fetch run, against config['symbols'] ---- *)
(* the symbols the configuration names: the strings, the ETFs and their
   underlyings *)
ConfigSymbols ==
    LET E == {symbols_config[i] : i \in 1..Len(symbols_config)}
    IN  {e.value : e \in {x \in E : x.type = "str"}}
        \cup {e.symbol : e \in {x \in E : x.type = "dict"}}
        \cup {e.underlying : e \in {x \in E : x.type = "dict" /\ "underlying" \in DOMAIN x}}

(* the position of a symbol in alphabetical order *)
Rank(t) == CHOOSE i \in 1..Len(Alphabetical) : Alphabetical[i] = t

C26_Run ==
    /\ {symbols_list[i] : i \in 1..Len(symbols_list)} = ConfigSymbols
    /\ \A i, j \in 1..Len(symbols_list) : i < j => Rank(symbols_list[i]) < Rank(symbols_list[j])
    /\ Len(processed) <= Len(symbols_list)
    /\ \A i \in 1..Len(processed) : processed[i].ticker = symbols_list[i]
    /\ Len(processed) < Len(symbols_list) =>
        LET t == symbols_list[Len(processed) + 1]
        IN  \A inputs \in TurnInputs :
                \E done \in {fetch_data_for_symbol(client, clock, dividend_files[t],
                                                   price_files[t], inputs)} :
                    /\ done.ret \in {None, Raised("JSONDecodeError")}
                    /\ done.dividends = "skipped" <=> IsRaised(done.ret)

C26_Step ==
    processed' # processed =>
        LET turn == processed'[Len(processed')]
            t == turn.ticker
        IN  /\ processed' = Append(processed, turn)
            /\ t = symbols_list[Len(processed) + 1]
            /\ turn.dividends \in {"fetch_error", "save_error"} => turn.prices # "skipped"
            /\ turn.dividends \in {"fetch_error", "empty", "skipped"} =>
                    dividend_files'[t] = dividend_files[t]
            /\ turn.prices \in {"fetch_error", "empty", "skipped"} =>
                    price_files'[t] = price_files[t]
            /\ \A u \in Tickers \ {t} :
                    dividend_files'[u] = dividend_files[u] /\ price_files'[u] = price_files[u]
            /\ UNCHANGED <<symbols_config, symbols_list>>

(* C26: symbols_list holds every symbol the configuration names (ETFs and
   underlyings) once, in sorted order, and the run takes them in that order, one
   turn each; while a symbol is left its turn ends, whatever the API answers and
   the file system does, either normally or in the exception main catches, and
   the next symbol is taken whatever the turn before did; in a turn an
   error while fetching or saving dividends does not skip the price fetch, an
   empty or failed fetch leaves that ticker's file as it was, and no other
   ticker's file changes. *)
C26_FailuresIsolated == []C26_Run /\ [][C26_Step]_vars

(* SPY is named twice in the configuration and before JEPI; JEPI came first
   and its turn ended in an exception (its dividend file is unreadable), then
   SPY's dividend fetch failed, leaving its dividend file as it was, and its
   prices were fetched and saved *)
C26_Witness ==
    /\ symbols_config = <<EntryStr("SPY"), EntryDictUnderlying("JEPI", "SPY")>>
    /\ Len(processed) = 2
    /\ processed[1] = [ticker |-> "JEPI", dividends |-> "skipped", prices |-> "skipped"]
    /\ processed[2] = [ticker |-> "SPY", dividends |-> "fetch_error", prices |-> "saved"]
    /\ dividend_files["SPY"] = File(<<[ex_dividend_date |-> 0, cash_amount |-> 4]>>)
    /\ price_files["SPY"] = File(<<[t |-> 0, c |-> 100000], [t |-> 1, c |-> 110000]>>)

====
